---- MODULE Spec2Model ----
(***************************************************************************)
(* Model of src/hooks/useTransactions.ts: the useTransactions hook.        *)
(*                                                                         *)
(* The hook's React state (transactions, loading, dateRange,               *)
(* currentCurrency), the identity supplied by useAuth, the remote store    *)
(* (tables transactions and activity_logs) and every asynchronous call in  *)
(* flight are state variables.  An async function is cut at each await:    *)
(* the call runs up to the first await, the store serves the request in a  *)
(* step of its own, and the continuation runs when the response arrives.   *)
(* The log insert is served in the step that sends it: it touches no      *)
(* table another request reads.  Amounts and conversion rates are          *)
(* integers.                                                               *)
(***************************************************************************)
EXTENDS Integers, Sequences, FiniteSets, TLC

\* ---------------------------------------------------------------- bounds
MaxCalls == 2        \* async calls of the hook started in one behaviour
MaxInFlight == 2     \* async calls suspended at an await at the same time

\* ------------------------------------------------------------- constants
Null == 0            \* dateRange.start / dateRange.end when absent
TicksPerDay == 2     \* instants a Date value tells apart within one day
NoUser == "null"     \* useAuth().user when nobody is signed in
Users == {"u1"}
Mutations == {"add", "update", "delete"}

DefaultCurrency == [code |-> "USD", symbol |-> "$"]

\* payloads of the 'currency-change' event: {code, symbol, conversionRate}
CurrencyEvents ==
    { [code |-> "INR", symbol |-> "Rs", conversionRate |-> 3],
      [code |-> "USD", symbol |-> "$", conversionRate |-> 1] }

\* arguments of addTransaction: Omit<Transaction, 'id'|'user_id'|'created_at'>
AddInputs ==
    { [type |-> "expense", amount |-> 25, category |-> "food",
       description |-> "null", transaction_date |-> 3] }

\* arguments of updateTransaction: Partial<Omit<Transaction, ...>>
UpdateInputs ==
    { [type |-> "income", amount |-> 60] }

\* arguments of setDateRange: Date instants, or Null
DateRanges ==
    { [start |-> Null, end |-> Null],
      [start |-> 2 * TicksPerDay + 1, end |-> Null] }

\* rows of the remote table before the hook is mounted
SeedRows ==
    { [id |-> 1, user_id |-> "u1", type |-> "income", amount |-> 100,
       category |-> "salary", description |-> "null",
       transaction_date |-> 2, created_at |-> 1],
      [id |-> 2, user_id |-> "u1", type |-> "expense", amount |-> 40,
       category |-> "food", description |-> "null",
       transaction_date |-> 1, created_at |-> 2] }

\* identifiers passed to updateTransaction and deleteTransaction: a row the
\* store holds from the start, and the first identifier the store assigns
Ids == {1, Cardinality(SeedRows) + 1}

VARIABLES
    transactions,     \* useState<Transaction[]>: the cache
    loading,          \* useState(true)
    dateRange,        \* useState({start, end})
    currentCurrency,  \* useState({code, symbol})
    user,             \* useAuth().user
    db,               \* remote table 'transactions': a set of rows
    nextId,           \* next identifier the store assigns
    activity_logs,    \* remote table 'activity_logs': a sequence of entries
    inflight,         \* async calls suspended at an await
    ncalls,           \* async calls started so far
    last              \* the step taken last: what ran, returned and toasted

vars == << transactions, loading, dateRange, currentCurrency, user, db,
           nextId, activity_logs, inflight, ncalls, last >>

\* ---------------------------------------------------------------- helpers
\* Date.toISOString().split('T')[0]: the calendar day an instant falls on
ISODate(d) == d \div TicksPerDay

\* { ...tx, displayAmount: v }
WithDisplay(tx, v) ==
    [f \in (DOMAIN tx) \cup {"displayAmount"} |->
        IF f = "displayAmount" THEN v ELSE tx[f]]

\* the persisted fields of a cache entry
Persisted(tx) == [f \in (DOMAIN tx) \ {"displayAmount"} |-> tx[f]]

\* the event recorded in last: kind is "return" (call cid of function fn, made
\* by user, ran to its end and returned ret, detail holding the returned
\* transaction or, for a fetch that succeeded, the entries setTransactions
\* replaced), "event" (the listener fn ran, detail holding e.detail) or
\* "step" (any other step: it returned nothing to a caller); toasts are the
\* notifications the step emitted
Event(kind, c, ret, toasts, detail) ==
    [kind |-> kind, cid |-> c.cid, fn |-> c.fn, user |-> c.user,
     ret |-> ret, toasts |-> toasts, detail |-> detail]

\* toast.error(message) / toast.success(message)
Toast(level, message) == << [level |-> level, message |-> message] >>

NoCall == [cid |-> 0, fn |-> "none", user |-> NoUser]

\* an async call suspended at its first await: pc is "request" (the store has
\* not served it), "response" (the store's answer {data, error} is on its way)
\* or "logResponse" (the answer to the activity_logs insert is on its way,
\* logged telling how many entries that insert appended)
Request(cid, fn, u, id, input) ==
    [cid |-> cid, fn |-> fn, pc |-> "request", user |-> u, id |-> id,
     input |-> input, data |-> <<>>, error |-> FALSE, logged |-> 0]

CanStart == ncalls < MaxCalls /\ Cardinality(inflight) < MaxInFlight

\* the identity check left out
HasUser_always(u) == TRUE

\* if (!user) return
HasUser(u) == u # NoUser

\* ------------------------------------------------------- the remote store
\* rows of the table that satisfy the date filters; the query names no owner:
\* the store shows an identity its own rows only
Selected(rows, u, q) ==
    { r \in rows : /\ r.user_id = u
                   /\ (q.gte = Null \/ r.transaction_date >= q.gte)
                   /\ (q.lte = Null \/ r.transaction_date <= q.lte) }

\* .order('transaction_date', { ascending: false }): every arrangement of
\* the rows with dates descending (rows of one date come in any order)
Ordered(rows) ==
    { s \in [1..Cardinality(rows) -> rows] :
        /\ \A i, j \in DOMAIN s : i # j => s[i] # s[j]
        /\ \A i, j \in DOMAIN s : i < j =>
              s[i].transaction_date >= s[j].transaction_date }

\* .update(updates) applied to one row
Merge(row, updates) ==
    [f \in DOMAIN row |-> IF f \in DOMAIN updates THEN updates[f] ELSE row[f]]

\* LogEntry with the name of the function as activity type
LogEntry_type(c) ==
    [user_id |-> c.user,
     activity_type |-> c.fn,
     description |-> "Deleted transaction"]

\* the entry a mutation writes to activity_logs (128-132, 169-173, 207-211);
\* the currency sign in front of the amount is left out of the description
LogEntry(c) ==
    [user_id |-> c.user,
     activity_type |-> "transaction",
     description |->
        CASE c.fn = "add" ->
               "Added new " \o c.input.type \o ": " \o
               ToString(c.input.amount) \o " - " \o c.input.category
          [] c.fn = "update" ->
               "Updated " \o
               (IF "type" \in DOMAIN c.input THEN c.input.type
                                             ELSE "transaction") \o ": " \o
               (IF "amount" \in DOMAIN c.input /\ c.input.amount # 0
                   THEN ToString(c.input.amount) ELSE "")
          [] OTHER -> "Deleted transaction"]

Resume(c, c2) == inflight' = (inflight \ {c}) \cup {c2}

\* a step that returns nothing to a caller and emits no notification
Step == Event("step", NoCall, "pending", <<>>, <<>>)

\* the store answers a request with a structured failure
StoreFails(c) ==
    /\ c.pc = "request"
    /\ Resume(c, [c EXCEPT !.pc = "response", !.error = TRUE])
    /\ last' = Step
    /\ UNCHANGED << transactions, loading, dateRange, currentCurrency, user,
                    db, nextId, activity_logs, ncalls >>

\* from('transactions').select('*').order(...).gte(...).lte(...)
StoreSelect(c) ==
    /\ c.fn = "fetch" /\ c.pc = "request"
    /\ \E data \in Ordered(Selected(db, c.user, c.input)) :
          Resume(c, [c EXCEPT !.pc = "response", !.data = data])
    /\ last' = Step
    /\ UNCHANGED << transactions, loading, dateRange, currentCurrency, user,
                    db, nextId, activity_logs, ncalls >>

\* from('transactions').insert({...newTransaction, user_id}).select()
StoreInsert(c) ==
    /\ c.fn = "add" /\ c.pc = "request"
    /\ LET row == [f \in (DOMAIN c.input) \cup {"id", "user_id", "created_at"} |->
                      CASE f = "id" -> nextId
                        [] f = "user_id" -> c.user
                        [] f = "created_at" -> nextId
                        [] OTHER -> c.input[f]]
       IN /\ db' = db \cup {row}
          /\ nextId' = nextId + 1
          /\ Resume(c, [c EXCEPT !.pc = "response", !.data = <<row>>])
    /\ last' = Step
    /\ UNCHANGED << transactions, loading, dateRange, currentCurrency, user,
                    activity_logs, ncalls >>

\* from('transactions').update(updates).eq('id', id).select()
StoreUpdate(c) ==
    /\ c.fn = "update" /\ c.pc = "request"
    /\ LET hit == { r \in db : r.id = c.id /\ r.user_id = c.user }
           new == { Merge(r, c.input) : r \in hit }
       IN /\ db' = (db \ hit) \cup new
          /\ \E data \in Ordered(new) :
                Resume(c, [c EXCEPT !.pc = "response", !.data = data])
    /\ last' = Step
    /\ UNCHANGED << transactions, loading, dateRange, currentCurrency, user,
                    nextId, activity_logs, ncalls >>

\* from('transactions').delete().eq('id', id)
StoreDelete(c) ==
    /\ c.fn = "delete" /\ c.pc = "request"
    /\ db' = { r \in db : ~(r.id = c.id /\ r.user_id = c.user) }
    /\ Resume(c, [c EXCEPT !.pc = "response"])
    /\ last' = Step
    /\ UNCHANGED << transactions, loading, dateRange, currentCurrency, user,
                    nextId, activity_logs, ncalls >>

\* from('activity_logs').insert(entry), served as it is sent: the entry is
\* appended, or the store answers with a structured failure and the log is
\* as it was; the write touches no other table
StoreLogInsert(c) ==
    \/ /\ activity_logs' = Append(activity_logs, LogEntry(c))
       /\ Resume(c, [c EXCEPT !.pc = "logResponse", !.logged = @ + 1])
    \/ /\ activity_logs' = activity_logs
       /\ Resume(c, [c EXCEPT !.pc = "logResponse"])

\* ------------------------------------------------------------ the hook
\* a call made while nobody is signed in: whichever function it is, it
\* returns at once (80, 117, 157, 200)
NoUserCall == Event("return", NoCall, "undefined", <<>>, <<>>)

\* a call of fn by identity u with these arguments runs to its first await
Start(fn, u, id, input) ==
    /\ ncalls' = ncalls + 1
    /\ inflight' = inflight \cup {Request(ncalls + 1, fn, u, id, input)}
    /\ last' = Step

\* the query built from dateRange (84-95)
FetchQuery(dr) ==
    [gte |-> IF dr.start # Null THEN ISODate(dr.start) ELSE Null,
     lte |-> IF dr.end # Null THEN ISODate(dr.end) ELSE Null]

\* fetchTransactions up to its await (79-97), for identity u and range dr
StartFetch(u, dr) ==
    IF ~HasUser(u)
    THEN /\ UNCHANGED << loading, inflight, ncalls >>
         /\ last' = NoUserCall
    ELSE /\ CanStart
         /\ loading' = TRUE
         /\ Start("fetch", u, 0, FetchQuery(dr))

\* fetchTransactions called by the UI
fetchTransactions ==
    /\ StartFetch(user, dateRange)
    /\ UNCHANGED << transactions, dateRange, currentCurrency, user, db,
                    nextId, activity_logs >>

\* processedData with the last row of the response lost
processedData_short(data) ==
    [i \in 1..(Len(data) - 1) |-> WithDisplay(data[i], data[i].amount)]

\* (data || []).map(tx => ({...tx, displayAmount: tx.amount})) (102-105)
processedData(data) ==
    [i \in 1..Len(data) |-> WithDisplay(data[i], data[i].amount)]

\* fetchTransactions_done that drops the rows of a response when a call was
\* started after its own
fetchTransactions_done_latest(c) ==
    /\ c.fn = "fetch" /\ c.pc = "response"
    /\ IF c.error
       THEN /\ transactions' = transactions
            /\ last' = Event("return", c, "undefined",
                             Toast("error", "Failed to load transactions"), <<>>)
       ELSE /\ transactions' = IF c.cid < ncalls THEN transactions
                                                ELSE processedData(c.data)
            /\ last' = Event("return", c, "undefined", <<>>, transactions)
    /\ loading' = FALSE
    /\ inflight' = inflight \ {c}
    /\ UNCHANGED << dateRange, currentCurrency, user, db, nextId,
                    activity_logs, ncalls >>

\* fetchTransactions from the response of its query to its end (97-113)
fetchTransactions_done(c) ==
    /\ c.fn = "fetch" /\ c.pc = "response"
    /\ IF c.error
       THEN /\ transactions' = transactions
            /\ last' = Event("return", c, "undefined",
                             Toast("error", "Failed to load transactions"), <<>>)
       ELSE /\ transactions' = processedData(c.data)
            /\ last' = Event("return", c, "undefined", <<>>, transactions)
    /\ loading' = FALSE
    /\ inflight' = inflight \ {c}
    /\ UNCHANGED << dateRange, currentCurrency, user, db, nextId,
                    activity_logs, ncalls >>

\* addTransaction up to its first await (116-123)
addTransaction(newTransaction) ==
    /\ IF ~HasUser(user)
       THEN /\ UNCHANGED << inflight, ncalls >>
            /\ last' = NoUserCall
       ELSE /\ CanStart
            /\ Start("add", user, 0, newTransaction)
    /\ UNCHANGED << transactions, loading, dateRange, currentCurrency, user,
                    db, nextId, activity_logs >>

\* catch of addTransaction (147-153)
addTransaction_catch(c) ==
    /\ transactions' = transactions
    /\ activity_logs' = activity_logs
    /\ inflight' = inflight \ {c}
    /\ last' = Event("return", c, "null",
                     Toast("error", "Failed to add transaction"), <<>>)

\* addTransaction_inserted with the cache patched before the log is written
addTransaction_inserted_patch(c) ==
    /\ c.fn = "add" /\ c.pc = "response"
    /\ IF c.error
       THEN addTransaction_catch(c)
       ELSE /\ StoreLogInsert(c)
            /\ last' = Step
            /\ transactions' =
                  << WithDisplay(c.data[1], c.data[1].amount) >> \o transactions
    /\ UNCHANGED << loading, dateRange, currentCurrency, user, db, nextId,
                    ncalls >>

\* addTransaction from the response of the insert to the second await (125-132)
addTransaction_inserted(c) ==
    /\ c.fn = "add" /\ c.pc = "response"
    /\ IF c.error
       THEN addTransaction_catch(c)
       ELSE /\ StoreLogInsert(c)
            /\ last' = Step
            /\ transactions' = transactions
    /\ UNCHANGED << loading, dateRange, currentCurrency, user, db, nextId,
                    ncalls >>

\* Prepended with the new entry put behind the cached ones
Prepended_behind(prev, newTx) == prev \o << newTx >>

\* setTransactions(prev => [newTx, ...prev]) (140)
Prepended(prev, newTx) == << newTx >> \o prev

\* addTransaction from the response of the log insert to its end (134-146)
addTransaction_done(c) ==
    /\ c.fn = "add" /\ c.pc = "logResponse"
    /\ activity_logs' = activity_logs
    /\ IF Len(c.data) = 0
       THEN addTransaction_catch(c)       \* data[0].amount throws
       ELSE LET newTx == WithDisplay(c.data[1], c.data[1].amount)
            IN /\ transactions' = Prepended(transactions, newTx)
               /\ inflight' = inflight \ {c}
               /\ last' = Event("return", c, "row",
                                Toast("success",
                                      (IF c.input.type = "income"
                                          THEN "Income" ELSE "Expense")
                                      \o " added successfully"),
                                << newTx >>)
    /\ UNCHANGED << loading, dateRange, currentCurrency, user, db, nextId,
                    ncalls >>

\* updateTransaction up to its first await (156-164)
updateTransaction(id, updates) ==
    /\ IF ~HasUser(user)
       THEN /\ UNCHANGED << inflight, ncalls >>
            /\ last' = NoUserCall
       ELSE /\ CanStart
            /\ Start("update", user, id, updates)
    /\ UNCHANGED << transactions, loading, dateRange, currentCurrency, user,
                    db, nextId, activity_logs >>

\* catch of updateTransaction (190-196)
updateTransaction_catch(c) ==
    /\ transactions' = transactions
    /\ activity_logs' = activity_logs
    /\ inflight' = inflight \ {c}
    /\ last' = Event("return", c, "null",
                     Toast("error", "Failed to update transaction"), <<>>)

\* updateTransaction from the response of the update to the second await
\* (166-173)
updateTransaction_updated(c) ==
    /\ c.fn = "update" /\ c.pc = "response"
    /\ IF c.error
       THEN updateTransaction_catch(c)
       ELSE /\ StoreLogInsert(c)
            /\ last' = Step
            /\ transactions' = transactions
    /\ UNCHANGED << loading, dateRange, currentCurrency, user, db, nextId,
                    ncalls >>

\* ReplaceById that leaves the cache as it was
ReplaceById_keep(prev, id, updatedTx) == prev

\* ReplaceById with the test on the identifier inverted
ReplaceById_others(prev, id, updatedTx) ==
    [i \in 1..Len(prev) |-> IF prev[i].id # id THEN updatedTx ELSE prev[i]]

\* prev.map(transaction => transaction.id === id ? updatedTx : transaction)
ReplaceById(prev, id, updatedTx) ==
    [i \in 1..Len(prev) |-> IF prev[i].id = id THEN updatedTx ELSE prev[i]]

\* updateTransaction from the response of the log insert to its end (175-189)
updateTransaction_done(c) ==
    /\ c.fn = "update" /\ c.pc = "logResponse"
    /\ activity_logs' = activity_logs
    /\ IF Len(c.data) = 0
       THEN updateTransaction_catch(c)    \* data[0].amount throws
       ELSE LET updatedTx == WithDisplay(c.data[1], c.data[1].amount)
            IN /\ transactions' = ReplaceById(transactions, c.id, updatedTx)
               /\ inflight' = inflight \ {c}
               /\ last' = Event("return", c, "row",
                                Toast("success",
                                      "Transaction updated successfully"),
                                << updatedTx >>)
    /\ UNCHANGED << loading, dateRange, currentCurrency, user, db, nextId,
                    ncalls >>

\* deleteTransaction up to its first await (199-203)
deleteTransaction(id) ==
    /\ IF ~HasUser(user)
       THEN /\ UNCHANGED << inflight, ncalls >>
            /\ last' = NoUserCall
       ELSE /\ CanStart
            /\ Start("delete", user, id, <<>>)
    /\ UNCHANGED << transactions, loading, dateRange, currentCurrency, user,
                    db, nextId, activity_logs >>

\* a catch that swallows the failure and reports success
deleteTransaction_catch_silent(c) ==
    /\ transactions' = transactions
    /\ activity_logs' = activity_logs
    /\ inflight' = inflight \ {c}
    /\ last' = Event("return", c, "true", <<>>, <<>>)

\* catch of deleteTransaction (220-226)
deleteTransaction_catch(c) ==
    /\ transactions' = transactions
    /\ activity_logs' = activity_logs
    /\ inflight' = inflight \ {c}
    /\ last' = Event("return", c, "false",
                     Toast("error", "Failed to delete transaction"), <<>>)

\* deleteTransaction from the response of the delete to the second await
\* (204-211)
deleteTransaction_deleted(c) ==
    /\ c.fn = "delete" /\ c.pc = "response"
    /\ IF c.error
       THEN deleteTransaction_catch(c)
       ELSE /\ StoreLogInsert(c)
            /\ last' = Step
            /\ transactions' = transactions
    /\ UNCHANGED << loading, dateRange, currentCurrency, user, db, nextId,
                    ncalls >>

\* RemoveById that drops the first entry whatever its identifier
RemoveById_first(prev, id) == SubSeq(prev, 2, Len(prev))

\* prev.filter(transaction => transaction.id !== id)
RemoveById(prev, id) == SelectSeq(prev, LAMBDA t : t.id # id)

\* deleteTransaction_done that treats a rejected log write as a failure
deleteTransaction_done_strict(c) ==
    /\ c.fn = "delete" /\ c.pc = "logResponse"
    /\ IF c.logged = 0
       THEN deleteTransaction_catch(c)
       ELSE /\ activity_logs' = activity_logs
            /\ transactions' = RemoveById(transactions, c.id)
            /\ inflight' = inflight \ {c}
            /\ last' = Event("return", c, "true",
                             Toast("success", "Transaction deleted successfully"),
                             <<>>)
    /\ UNCHANGED << loading, dateRange, currentCurrency, user, db, nextId,
                    ncalls >>

\* deleteTransaction from the response of the log insert to its end (213-219)
deleteTransaction_done(c) ==
    /\ c.fn = "delete" /\ c.pc = "logResponse"
    /\ activity_logs' = activity_logs
    /\ transactions' = RemoveById(transactions, c.id)
    /\ inflight' = inflight \ {c}
    /\ last' = Event("return", c, "true",
                     Toast("success", "Transaction deleted successfully"), <<>>)
    /\ UNCHANGED << loading, dateRange, currentCurrency, user, db, nextId,
                    ncalls >>

\* Converted with the conversion written to amount as well
Converted_amount(prevTx, conversionRate) ==
    [i \in 1..Len(prevTx) |->
        [WithDisplay(prevTx[i], prevTx[i].amount * conversionRate)
            EXCEPT !.amount = @ * conversionRate]]

\* prevTx.map(tx => ({...tx, displayAmount: Number(tx.amount) * rate}))
Converted(prevTx, conversionRate) ==
    [i \in 1..Len(prevTx) |->
        WithDisplay(prevTx[i], prevTx[i].amount * conversionRate)]

\* the 'currency-change' listener (59-70)
handleCurrencyChange(e) ==
    /\ currentCurrency' = [code |-> e.code, symbol |-> e.symbol]
    /\ transactions' = Converted(transactions, e.conversionRate)
    /\ last' = Event("event", [NoCall EXCEPT !.fn = "currency-change"],
                     "undefined", <<>>, << e >>)
    /\ UNCHANGED << loading, dateRange, user, db, nextId, activity_logs,
                    inflight, ncalls >>

\* setDateRange(r), then the effect on [user, dateRange] (233-237)
setDateRange(r) ==
    /\ r # dateRange
    /\ dateRange' = r
    /\ IF HasUser(user)
       THEN StartFetch(user, r)
       ELSE /\ UNCHANGED << loading, inflight, ncalls >>
            /\ last' = Step
    /\ UNCHANGED << transactions, currentCurrency, user, db, nextId,
                    activity_logs >>

\* useAuth() supplies another identity, then the effect on [user, dateRange]
\* (26, 233-237)
userChanged(u) ==
    /\ u # user
    /\ user' = u
    /\ IF HasUser(u)
       THEN StartFetch(u, dateRange)
       ELSE /\ UNCHANGED << loading, inflight, ncalls >>
            /\ last' = Step
    /\ UNCHANGED << transactions, dateRange, currentCurrency, db, nextId,
                    activity_logs >>

\* Total summing the displayed amounts
Total_display(txs, kind) ==
    LET picked == SelectSeq(txs, LAMBDA t : t.type = kind)
        sum[i \in 0..Len(picked)] ==
            IF i = 0 THEN 0 ELSE sum[i - 1] + picked[i].displayAmount
    IN sum[Len(picked)]

\* transactions.filter(t => t.type === kind)
\*             .reduce((sum, t) => sum + Number(t.amount), 0)
Total(txs, kind) ==
    LET picked == SelectSeq(txs, LAMBDA t : t.type = kind)
        sum[i \in 0..Len(picked)] ==
            IF i = 0 THEN 0 ELSE sum[i - 1] + picked[i].amount
    IN sum[Len(picked)]

\* the integer part of a number with group separators
RECURSIVE Grouped(_)
Grouped(n) ==
    IF n < 1000
    THEN ToString(n)
    ELSE Grouped(n \div 1000) \o "," \o
         (IF n % 1000 < 10 THEN "00" ELSE IF n % 1000 < 100 THEN "0" ELSE "")
         \o ToString(n % 1000)

\* n.toLocaleString(undefined, {minimumFractionDigits: 2,
\* maximumFractionDigits: 2}) of a whole number n, in a host locale that
\* groups with "," and marks decimals with "."
toLocaleString(n) ==
    (IF n < 0 THEN "-" \o Grouped(-n) ELSE Grouped(n)) \o ".00"

\* financialSummary that formats with the symbol of the default currency
financialSummary_dollar(txs, currency) ==
    LET income == Total(txs, "income")
        expenses == Total(txs, "expense")
        balance == income - expenses
    IN [income |-> income,
        expenses |-> expenses,
        balance |-> balance,
        formattedIncome |-> DefaultCurrency.symbol \o toLocaleString(income),
        formattedExpenses |-> DefaultCurrency.symbol \o toLocaleString(expenses),
        formattedBalance |-> DefaultCurrency.symbol \o toLocaleString(balance)]

\* the memoized financialSummary (30-49)
financialSummary(txs, currency) ==
    LET income == Total(txs, "income")
        expenses == Total(txs, "expense")
        balance == income - expenses
    IN [income |-> income,
        expenses |-> expenses,
        balance |-> balance,
        formattedIncome |-> currency.symbol \o toLocaleString(income),
        formattedExpenses |-> currency.symbol \o toLocaleString(expenses),
        formattedBalance |-> currency.symbol \o toLocaleString(balance)]

\* getTransactionSummary() (229-231)
getTransactionSummary == financialSummary(transactions, currentCurrency)

Init ==
    /\ transactions = <<>>
    /\ loading = TRUE
    /\ dateRange = [start |-> Null, end |-> Null]
    /\ currentCurrency = DefaultCurrency
    /\ user = NoUser
    /\ db = SeedRows
    /\ nextId = Cardinality(SeedRows) + 1
    /\ activity_logs = <<>>
    /\ inflight = {}
    /\ ncalls = 0
    /\ last = Step


Next ==
    \/ fetchTransactions
    \/ \E n \in AddInputs : addTransaction(n)
    \/ \E id \in Ids, u \in UpdateInputs : updateTransaction(id, u)
    \/ \E id \in Ids : deleteTransaction(id)
    \/ \E e \in CurrencyEvents : handleCurrencyChange(e)
    \/ \E r \in DateRanges : setDateRange(r)
    \/ \E u \in Users \cup {NoUser} : userChanged(u)
    \/ \E c \in inflight : StoreFails(c)
    \/ \E c \in inflight : StoreSelect(c)
    \/ \E c \in inflight : StoreInsert(c)
    \/ \E c \in inflight : StoreUpdate(c)
    \/ \E c \in inflight : StoreDelete(c)
    \/ \E c \in inflight : fetchTransactions_done(c)
    \/ \E c \in inflight : addTransaction_inserted(c)
    \/ \E c \in inflight : addTransaction_done(c)
    \/ \E c \in inflight : updateTransaction_updated(c)
    \/ \E c \in inflight : updateTransaction_done(c)
    \/ \E c \in inflight : deleteTransaction_deleted(c)
    \/ \E c \in inflight : deleteTransaction_done(c)

Spec == Init /\ [][Next]_vars

\* ------------------------------------------------------------- fairness
\* the store answers a request that is waiting for it
Responds ==
    \E c \in inflight :
        \/ StoreFails(c) \/ StoreSelect(c) \/ StoreInsert(c)
        \/ StoreUpdate(c) \/ StoreDelete(c)

\* the event loop resumes a function whose awaited promise has settled
Continues ==
    \E c \in inflight :
        \/ fetchTransactions_done(c)
        \/ addTransaction_inserted(c) \/ addTransaction_done(c)
        \/ updateTransaction_updated(c) \/ updateTransaction_done(c)
        \/ deleteTransaction_deleted(c) \/ deleteTransaction_done(c)

\* every request is answered and every settled await is resumed; what the
\* user and the environment do (calls, sign-in, events) is left free
FairSpec ==
    Init /\ [][Next]_vars /\ WF_vars(Responds) /\ WF_vars(Continues)

\* -------------------------------------------------- races after sign-in
\* arguments of two updateTransaction calls that differ
RaceUpdates == UpdateInputs \cup { [amount |-> 70] }

\* the hook once u1 has signed in and the fetch started by the effect
\* (233-237) has filled the cache; calls are counted from here
InitRace ==
    /\ transactions \in
          { processedData(data) :
               data \in Ordered(Selected(SeedRows, "u1",
                                         FetchQuery([start |-> Null,
                                                     end |-> Null]))) }
    /\ loading = FALSE
    /\ dateRange = [start |-> Null, end |-> Null]
    /\ currentCurrency = DefaultCurrency
    /\ user = "u1"
    /\ db = SeedRows
    /\ nextId = Cardinality(SeedRows) + 1
    /\ activity_logs = <<>>
    /\ inflight = {}
    /\ ncalls = 0
    /\ last = Step

\* fetches and updates, their service by the store and their continuations
NextRace ==
    \/ fetchTransactions
    \/ \E id \in Ids, u \in RaceUpdates : updateTransaction(id, u)
    \/ \E c \in inflight : StoreFails(c)
    \/ \E c \in inflight : StoreSelect(c)
    \/ \E c \in inflight : StoreUpdate(c)
    \/ \E c \in inflight : fetchTransactions_done(c)
    \/ \E c \in inflight : updateTransaction_updated(c)
    \/ \E c \in inflight : updateTransaction_done(c)

SpecRace == InitRace /\ [][NextRace]_vars

\* ----------------------------------------------------------------- claims
\* the call in flight with this number
Call(cid) == CHOOSE c \in inflight : c.cid = cid

\* this step is the end of a call of fn that passed the identity check
Returns(fn) == last'.kind = "return" /\ last'.fn = fn /\ last'.cid # 0

\* this step is the end of a call of fn that reports success
Succeeds(fn) == Returns(fn) /\ last'.ret \in {"row", "true"}

\* C1: when a fetchTransactions call ends on a successful query, the cache is
\* exactly the rows of the response, in the response's order, each with
\* displayAmount equal to its amount; nothing of the previous cache is kept.
C1_FetchReplacesCache ==
    [][ (Returns("fetch") /\ ~Call(last'.cid).error) =>
          LET data == Call(last'.cid).data
          IN /\ Len(transactions') = Len(data)
             /\ \A i \in 1..Len(data) :
                   /\ Persisted(transactions'[i]) = data[i]
                   /\ transactions'[i].displayAmount = data[i].amount ]_vars

\* a second fetch, narrowed by the date range, has replaced the cache by
\* the single row of its response
C1_Witness ==
    /\ last.kind = "return" /\ last.fn = "fetch" /\ last.cid = 2
    /\ last.toasts = <<>>
    /\ Len(transactions) = 1
    /\ dateRange.start # Null

\* C2: when addTransaction reports success, the cache is one entry longer, the
\* new entry (the row the store assigned, displayAmount equal to its amount)
\* is at index 1 and the former entries follow in their former order.
C2_AddPrepends ==
    [][ Succeeds("add") =>
          LET row == Call(last'.cid).data[1]
          IN /\ Len(transactions') = Len(transactions) + 1
             /\ Persisted(transactions'[1]) = row
             /\ transactions'[1].displayAmount = row.amount
             /\ last'.detail = << transactions'[1] >>
             /\ \A i \in 1..Len(transactions) :
                   transactions'[i + 1] = transactions[i] ]_vars

\* an add has put its row in front of two cached entries
C2_Witness ==
    /\ last.kind = "return" /\ last.fn = "add" /\ last.ret = "row"
    /\ Len(transactions) = 3
    /\ transactions[1].id = 3 /\ transactions[1].displayAmount = 25
    /\ transactions[2].id = 1 /\ transactions[3].id = 2

\* C3: when updateTransaction(id, changes) reports success, the cache has the
\* same length, every entry with that identifier is the updated row (which
\* carries the changes) at its former position and every other entry is as it
\* was.
C3_UpdateInPlace ==
    [][ Succeeds("update") =>
          LET c == Call(last'.cid)
              updatedTx == WithDisplay(c.data[1], c.data[1].amount)
          IN /\ c.data[1].id = c.id
             /\ \A f \in DOMAIN c.input : c.data[1][f] = c.input[f]
             /\ Len(transactions') = Len(transactions)
             /\ \A i \in 1..Len(transactions) :
                   transactions'[i] =
                      IF transactions[i].id = c.id THEN updatedTx
                                                   ELSE transactions[i] ]_vars

\* an update has replaced the first of two cached entries
C3_Witness ==
    /\ last.kind = "return" /\ last.fn = "update" /\ last.ret = "row"
    /\ Len(transactions) = 2
    /\ transactions[1] = last.detail[1]
    /\ transactions[1].id = 1 /\ transactions[1].amount = 60
    /\ transactions[2].id = 2 /\ transactions[2].amount = 40

\* the entries of a cache with this identifier
Holding(txs, id) == { i \in 1..Len(txs) : txs[i].id = id }

\* C4 as stated: when deleteTransaction(id) returns true, no entry with that
\* identifier remains and the cache is exactly one entry shorter.
C4_DeleteShrinksByOne ==
    [][ Succeeds("delete") =>
          /\ Holding(transactions', Call(last'.cid).id) = {}
          /\ Len(transactions') = Len(transactions) - 1 ]_vars

\* C4 amended: when deleteTransaction(id) returns true, no entry with that
\* identifier remains, the cache is shorter by the number of entries that had
\* that identifier (none when the identifier was not cached) and the other
\* entries keep their order.
C4_DeleteRemovesHeld ==
    [][ Succeeds("delete") =>
          LET id == Call(last'.cid).id
              kept == { i \in 1..Len(transactions) : transactions[i].id # id }
          IN /\ Holding(transactions', id) = {}
             /\ Len(transactions') =
                   Len(transactions) - Cardinality(Holding(transactions, id))
             /\ \A i \in kept :
                   transactions'[Cardinality({ j \in kept : j <= i })]
                      = transactions[i] ]_vars

\* a delete has removed the first of two cached entries
C4_Witness ==
    /\ last.kind = "return" /\ last.fn = "delete" /\ last.ret = "true"
    /\ Len(transactions) = 1
    /\ transactions[1].id = 2

\* C5: a currency-change event {code, symbol, conversionRate} sets the
\* display currency to {code, symbol} and every entry's displayAmount to
\* amount * conversionRate; the persisted fields, the order and the length of
\* the cache are as they were and no request goes to the store.
C5_CurrencyChangeIsDisplayOnly ==
    [][ last'.kind = "event" =>
          LET e == last'.detail[1]
          IN /\ currentCurrency' = [code |-> e.code, symbol |-> e.symbol]
             /\ Len(transactions') = Len(transactions)
             /\ \A i \in 1..Len(transactions) :
                   /\ transactions'[i].displayAmount
                         = transactions[i].amount * e.conversionRate
                   /\ Persisted(transactions'[i]) = Persisted(transactions[i])
             /\ UNCHANGED << db, nextId, activity_logs, inflight, ncalls,
                             loading >> ]_vars

\* a currency-change event has rescaled two cached entries
C5_Witness ==
    /\ last.kind = "event"
    /\ currentCurrency.code = "INR"
    /\ Len(transactions) = 2
    /\ transactions[1].amount = 100 /\ transactions[1].displayAmount = 300
    /\ transactions[2].amount = 40 /\ transactions[2].displayAmount = 120

\* what a function returns from its catch
Sentinel(fn) ==
    CASE fn = "fetch" -> "undefined"
      [] fn = "delete" -> "false"
      [] OTHER -> "null"

\* C6: when the answer to the primary store operation of a call carries an
\* error, the call ends there: the cache and the activity log are as they
\* were, one failure notification is emitted, and the call returns (it does
\* not throw) null for add and update, false for delete.
C6_StoreErrorIsCaught ==
    [][ \A c \in inflight :
          (c.pc = "response" /\ c.error /\ c \notin inflight') =>
             /\ \A d \in inflight' : d.cid # c.cid
             /\ transactions' = transactions
             /\ activity_logs' = activity_logs
             /\ last'.kind = "return" /\ last'.cid = c.cid /\ last'.fn = c.fn
             /\ Len(last'.toasts) = 1 /\ last'.toasts[1].level = "error"
             /\ last'.ret = Sentinel(c.fn) ]_vars

\* a delete has failed in the store: both cached entries are kept, a failure
\* notification is shown and false is returned
C6_Witness ==
    /\ last.kind = "return" /\ last.fn = "delete" /\ last.ret = "false"
    /\ last.toasts = Toast("error", "Failed to delete transaction")
    /\ Len(transactions) = 2

\* C7: while nobody is signed in no call reaches the store, and a call of
\* fetchTransactions, addTransaction, updateTransaction or deleteTransaction
\* made then changes neither the cache, the loading flag, the store nor the
\* activity log and emits no notification.
C7_NoIdentityNoEffect ==
    [][ /\ (user = NoUser /\ user' = NoUser) =>
              /\ ncalls' = ncalls
              /\ { c.cid : c \in inflight' } \subseteq { c.cid : c \in inflight }
        /\ (last'.kind = "return" /\ last'.cid = 0) =>
              /\ user = NoUser
              /\ last'.toasts = <<>>
              /\ UNCHANGED << transactions, loading, db, nextId, activity_logs,
                              inflight, ncalls >> ]_vars

\* a function of the hook has been called after sign-out, with two entries
\* cached
C7_Witness ==
    /\ last.kind = "return" /\ last.cid = 0
    /\ user = NoUser
    /\ Len(transactions) = 2
    /\ ~loading

\* the sum of amount over the entries of a cache at these positions
RECURSIVE SumAt(_, _)
SumAt(txs, S) ==
    IF S = {} THEN 0
    ELSE LET i == CHOOSE i \in S : TRUE
         IN txs[i].amount + SumAt(txs, S \ {i})

\* C8: in every state the summary's income is the sum of amount over the
\* cached income entries, its expenses the sum of amount over the cached
\* expense entries, and its balance income minus expenses.
C8_SummaryIsSumOfAmounts ==
    LET s == getTransactionSummary
        of(kind) == { i \in 1..Len(transactions) : transactions[i].type = kind }
    IN /\ s.income = SumAt(transactions, of("income"))
       /\ s.expenses = SumAt(transactions, of("expense"))
       /\ s.balance = s.income - s.expenses

\* cache [{income, 100}, {expense, 40}] shown in another currency: income
\* 100, expenses 40, balance 60
C8_Witness ==
    /\ Len(transactions) = 2
    /\ transactions[1].type = "income" /\ transactions[1].amount = 100
    /\ transactions[2].type = "expense" /\ transactions[2].amount = 40
    /\ transactions[1].displayAmount = 300
    /\ getTransactionSummary.income = 100
    /\ getTransactionSummary.expenses = 40
    /\ getTransactionSummary.balance = 60
    /\ getTransactionSummary.formattedBalance = "Rs60.00"

\* C9: in every state where a fetchTransactions call that passed the identity
\* check is still in flight, loading is true.
C9_LoadingWhileFetching ==
    (\E c \in inflight : c.fn = "fetch") => loading

\* C10 as stated: every add, update or delete that reports success has
\* appended exactly one entry to the activity log.
C10_SuccessHasLogged ==
    [][ \A fn \in Mutations :
          Succeeds(fn) => Call(last'.cid).logged = 1 ]_vars

\* C10 amended: every add, update or delete that reports success has issued
\* exactly one write {owner = the identity that made the call, activityType =
\* "transaction", description} to the activity log; the log gained exactly
\* one such entry if it accepted the write and none if it rejected it, and
\* the log changes in no other way.
C10_SuccessHasWrittenOnce ==
    [][ /\ \A fn \in Mutations :
              Succeeds(fn) =>
                 /\ Call(last'.cid).pc = "logResponse"
                 /\ Call(last'.cid).logged \in {0, 1}
                 /\ activity_logs' = activity_logs
        /\ \A c \in inflight : \A d \in inflight' :
              (d.cid = c.cid /\ d.pc = "logResponse" /\ c.pc # "logResponse") =>
                 /\ c.fn \in Mutations /\ c.pc = "response" /\ ~c.error
                 /\ c.logged = 0
                 /\ d.logged = Len(activity_logs') - Len(activity_logs)
        /\ activity_logs' # activity_logs =>
              \E c \in inflight :
                 /\ c.pc = "response"
                 /\ [c EXCEPT !.pc = "logResponse", !.logged = 1] \in inflight'
                 /\ LET e == activity_logs'[Len(activity_logs')]
                    IN /\ activity_logs' = Append(activity_logs, e)
                       /\ DOMAIN e = {"user_id", "activity_type", "description"}
                       /\ e.user_id = c.user /\ e.user_id \in Users
                       /\ e.activity_type = "transaction"
                       /\ e.description # "" ]_vars

\* an add made by u1 has reported success and the log holds its one entry
C10_Witness ==
    /\ last.kind = "return" /\ last.fn = "add" /\ last.ret = "row"
    /\ activity_logs =
          << [user_id |-> "u1", activity_type |-> "transaction",
              description |-> "Added new expense: 25 - food"] >>

\* this step is the log write of the mutation c: its continuation after the
\* store's answer sends the entry and the answer to that is on its way
LogWritten(c) ==
    /\ c.pc = "response"
    /\ \E d \in inflight' : d.cid = c.cid /\ d.pc = "logResponse"

Applied(c) == ~c.error /\ (c.fn = "delete" \/ Len(c.data) = 1)

\* C12: when the log write of an add, update or delete was rejected after the
\* store applied the mutation, the call still ends in success: the cache is
\* patched, a success notification is emitted and the row, or true, is
\* returned.
C12_AuditFailureIsIgnored ==
    [][ \A c \in inflight :
          (c.fn \in Mutations /\ c.pc = "logResponse" /\ c.logged = 0
              /\ Applied(c) /\ c \notin inflight') =>
             /\ last'.kind = "return" /\ last'.cid = c.cid
             /\ last'.ret = (IF c.fn = "delete" THEN "true" ELSE "row")
             /\ Len(last'.toasts) = 1 /\ last'.toasts[1].level = "success"
             /\ CASE c.fn = "add" ->
                       /\ Len(transactions') = Len(transactions) + 1
                       /\ Persisted(transactions'[1]) = c.data[1]
                  [] c.fn = "update" ->
                       \A i \in Holding(transactions, c.id) :
                          Persisted(transactions'[i]) = c.data[1]
                  [] OTHER ->
                       Holding(transactions', c.id) = {} ]_vars

\* a delete whose log write was rejected has returned true and removed the
\* entry from the cache; the log is empty
C12_Witness ==
    /\ last.kind = "return" /\ last.fn = "delete" /\ last.ret = "true"
    /\ last.toasts = Toast("success", "Transaction deleted successfully")
    /\ activity_logs = <<>>
    /\ Len(transactions) = 1 /\ transactions[1].id = 2

\* C13: whenever an updateTransaction call that the store applied ends, the
\* cache entry with its identifier becomes the row its response carries,
\* whatever the entry held before (the row of an update issued later
\* included) and whatever the store holds by then, and success is reported:
\* of two updates of one identifier in flight together, the one whose
\* response arrives last leaves its row in the cache.
C13_LastCompletionWins ==
    [][ \A c \in inflight :
          (c.fn = "update" /\ c.pc = "logResponse" /\ Applied(c)
              /\ c \notin inflight') =>
             /\ \A i \in Holding(transactions, c.id) :
                   Persisted(transactions'[i]) = c.data[1]
             /\ Len(transactions') = Len(transactions)
             /\ last'.ret = "row"
             /\ last'.toasts = Toast("success", "Transaction updated successfully")
      ]_vars

\* two updates of row 1 raced: the store applied the one issued first
\* (amount 60) and then the one issued second (amount 70), the second call
\* ended first and the first call ended last, so the cache holds 60 while
\* the store holds 70
C13_Witness ==
    /\ last.kind = "return" /\ last.fn = "update" /\ last.cid = 1
    /\ last.ret = "row"
    /\ ncalls = 2 /\ inflight = {}
    /\ transactions[1].id = 1 /\ transactions[1].amount = 60
    /\ \E r \in db : r.id = 1 /\ r.amount = 70

\* C14: a fetch in flight is never cancelled, and its rows are never
\* discarded: it stays in flight until its own response is handled, and when
\* that response carries no error the cache becomes its rows even though
\* another call was started after it, the date range has changed since or
\* the cache holds the rows of a fetch issued later.
C14_StaleFetchOverwrites ==
    [][ \A c \in inflight :
          c.fn = "fetch" =>
             /\ (\A d \in inflight' : d.cid # c.cid) =>
                   /\ c.pc = "response"
                   /\ last'.kind = "return" /\ last'.cid = c.cid
             /\ (c.pc = "response" /\ ~c.error /\ c \notin inflight') =>
                   /\ Len(transactions') = Len(c.data)
                   /\ \A i \in 1..Len(c.data) :
                         Persisted(transactions'[i]) = c.data[i]
                   /\ last'.detail = transactions ]_vars

\* the fetch issued first, for every date, ended after the fetch issued for
\* the narrowed range: it replaced the one row of the newer fetch by its own
\* two rows, which the current range does not select
C14_Witness ==
    /\ last.kind = "return" /\ last.fn = "fetch" /\ last.cid = 1
    /\ ncalls = 2 /\ inflight = {}
    /\ dateRange.start # Null
    /\ Len(last.detail) = 1 /\ last.detail[1].id = 1
    /\ Len(transactions) = 2
    /\ \E i \in 1..2 :
          transactions[i].transaction_date < FetchQuery(dateRange).gte

\* C15: a 'currency-change' event leaves the income, expenses and balance
\* of the financial summary as they were, whatever its conversionRate; each
\* formatted string becomes the symbol of the event followed by the digits
\* it had before.
C15_CurrencyChangeKeepsSummary ==
    [][ last'.kind = "event" =>
          LET e == last'.detail[1]
              was == financialSummary(transactions, currentCurrency)
              now == financialSummary(transactions', currentCurrency')
          IN /\ now.income = was.income
             /\ now.expenses = was.expenses
             /\ now.balance = was.balance
             /\ now.formattedIncome = e.symbol \o toLocaleString(was.income)
             /\ now.formattedExpenses = e.symbol \o toLocaleString(was.expenses)
             /\ now.formattedBalance = e.symbol \o toLocaleString(was.balance) ]_vars

\* an event with rate 3 has tripled the display amount of a held income of
\* 100, and the summary still reports 100, now under the symbol of the event
C15_Witness ==
    /\ last.kind = "event"
    /\ last.detail[1].conversionRate = 3
    /\ \E i \in 1..Len(transactions) :
          /\ transactions[i].type = "income"
          /\ transactions[i].amount = 100
          /\ transactions[i].displayAmount = 300
    /\ getTransactionSummary.income = 100
    /\ getTransactionSummary.formattedIncome = "Rs100.00"
    /\ getTransactionSummary.formattedBalance = "Rs60.00"

\* C16: in every reachable state the cache holds at most one entry per
\* identifier.
C16_OneEntryPerId ==
    \A i, j \in 1..Len(transactions) :
        transactions[i].id = transactions[j].id => i = j

\* C17: whenever no operation is in flight, every entry of the cache is a
\* row of the store with the same persisted fields.
C17_QuiescentCacheIsStored ==
    inflight = {} =>
        \A i \in 1..Len(transactions) : Persisted(transactions[i]) \in db

\* the conversionRate of the most recent 'currency-change' event, which is
\* the one that made code the current currency; 1 when there was none
RateOf(code) ==
    IF last.kind = "event" /\ last.detail[1].code = code
    THEN last.detail[1].conversionRate
    ELSE IF \E e \in CurrencyEvents : e.code = code
         THEN (CHOOSE e \in CurrencyEvents : e.code = code).conversionRate
         ELSE 1

\* C18: in every reachable state the displayAmount of every cached entry is
\* its amount times the conversionRate of the most recent 'currency-change'
\* event, or its amount when no event has occurred.
C18_DisplayIsConverted ==
    \A i \in 1..Len(transactions) :
        transactions[i].displayAmount =
            transactions[i].amount * RateOf(currentCurrency.code)

\* C19: an add, update or delete that returns its failure sentinel (null or
\* false) has appended no entry to the activity log.
C19_FailureHasNotLogged ==
    [][ \A fn \in Mutations :
          (Returns(fn) /\ last'.ret = Sentinel(fn)) =>
             Call(last'.cid).logged = 0 ]_vars

\* C20: when every request is answered and every answer is handled, the
\* loading flag eventually becomes false, in every run, those in which
\* nobody ever signs in included.
C20_LoadingEventuallyFalse == <>(~loading)
====
